---- MODULE Spec2Model ----
(***************************************************************************)
(* A model of lib/index.js of nes: the plugin's registration (defaults,    *)
(* schema validation, authentication endpoint, listeners, lifecycle hooks  *)
(* and decorations), the onPreStart / onPreStop hooks, and the handshake   *)
(* route handler with its three authentication modes.                      *)
(***************************************************************************)
EXTENDS Integers, Sequences, FiniteSets

VARIABLES
    options,        \* the options object handed to register (an input)
    connections,    \* server.connections.length at registration (an input)
    phase,          \* "init", "registered" (next() was reached) or "threw"
    settings,       \* the settings object register built (config is settings.auth)
    routes,         \* routes added with server.route
    states,         \* cookie definitions added with server.state
    listeners,      \* the listeners array of register's closure
    exts,           \* hooks installed with server.ext
    decorations,    \* decorations added with server.decorate
    nextCalled,     \* whether register called next()
    randomStrings,  \* the results of Cryptiles.randomString, in call order
    serial,         \* the Items.serial iteration of a running onPreStop
    hostCall,       \* the last call a lifecycle hook made into the host
    requests        \* the handshake requests, in arrival order

vars == <<options, connections, phase, settings, routes, states, listeners,
          exts, decorations, nextCalled, randomStrings, serial, hostCall,
          requests>>

---------------------------------------------------------------------------
(* Bounds of the model.                                                    *)

MaxNum == 2
MaxListeners == 3
MaxRequests == 2

---------------------------------------------------------------------------
(* JavaScript values: undefined/null, booleans, integers, strings.         *)

Absent == [kind |-> "absent"]
Bool(b) == [kind |-> "boolean", bool |-> b]
Num(n) == [kind |-> "number", num |-> n]
Str(s) == [kind |-> "string", str |-> s]

\* the !v of JavaScript
Falsy(v) ==
    \/ v.kind = "absent"
    \/ v = Bool(FALSE)
    \/ v = Num(0)
    \/ v = Str("")

---------------------------------------------------------------------------
(* internals.defaults                                                      *)

DefaultHeartbeatInterval == 15000
DefaultHeartbeatTimeout == 5000

defaults ==
    [auth |-> [kind |-> "object",
               endpoint |-> Str("/nes/auth"),
               id |-> Str("nes.auth"),
               type |-> Str("direct"),
               cookie |-> Str("nes"),
               password |-> Absent,
               index |-> Bool(FALSE),
               maxConnectionsPerUser |-> Bool(FALSE)],
     heartbeat |-> [kind |-> "object",
                    interval |-> Num(DefaultHeartbeatInterval),
                    timeout |-> Num(DefaultHeartbeatTimeout)]]

---------------------------------------------------------------------------
(* Hoek.applyToDefaults(defaults, options): a clone of the defaults with   *)
(* the options merged over it, key by key; objects merge recursively, an   *)
(* undefined or null option leaves the default in place.                   *)

RECURSIVE merge(_, _)
merge(target, source) ==
    IF source.kind = "absent" THEN target
    ELSE IF source.kind = "object" /\ target.kind = "object"
    THEN [k \in DOMAIN target |->
             IF k = "kind" THEN "object"
             ELSE IF k \in DOMAIN source THEN merge(target[k], source[k])
             ELSE target[k]]
    ELSE source

applyToDefaults(defs, opts) ==
    [k \in DOMAIN defs |->
        IF k \in DOMAIN opts THEN merge(defs[k], opts[k]) ELSE defs[k]]

---------------------------------------------------------------------------
(* internals.schema, as Joi evaluates it on the merged settings.           *)

IsInteger(v) == v.kind = "number"

\* Joi.valid('cookie', 'token', 'direct').required()
ValidType(v) == v.kind = "string" /\ v.str \in {"cookie", "token", "direct"}

\* Joi.alternatives([Joi.string(), Joi.binary(), Joi.object()]): optional;
\* Joi.string() does not allow the empty string
ValidPassword(v) ==
    \/ v.kind = "absent"
    \/ v.kind = "string" /\ v.str # ""

\* Joi.boolean()
ValidIndex(v) == v.kind \in {"absent", "boolean"}

\* a faulty variant of ValidMaxConnectionsPerUser: it drops the .when('index', ...)
ValidMaxConnectionsPerUserNoWhen(v, index) ==
    \/ v.kind = "absent"
    \/ v = Bool(FALSE)
    \/ IsInteger(v) /\ v.num >= 1

\* Joi.number().integer().min(1).allow(false)
\*     .when('index', { is: true, otherwise: Joi.valid(false) })
ValidMaxConnectionsPerUser(v, index) ==
    IF index = Bool(TRUE)
    THEN \/ v.kind = "absent"
         \/ v = Bool(FALSE)
         \/ IsInteger(v) /\ v.num >= 1
    ELSE \/ v.kind = "absent"
         \/ v = Bool(FALSE)

\* Joi.object({...}).allow(false).required()
ValidAuth(a) ==
    \/ a = Bool(FALSE)
    \/ /\ a.kind = "object"
       /\ a.endpoint.kind = "string"
       /\ ValidType(a.type)
       /\ a.cookie.kind = "string"
       /\ ValidPassword(a.password)
       /\ ValidIndex(a.index)
       /\ ValidMaxConnectionsPerUser(a.maxConnectionsPerUser, a.index)

\* a faulty variant of ValidHeartbeat: timeout may equal interval
ValidHeartbeatLessOrEqual(h) ==
    \/ h.kind = "absent"
    \/ h = Bool(FALSE)
    \/ /\ h.kind = "object"
       /\ IsInteger(h.interval) /\ h.interval.num >= 1
       /\ IsInteger(h.timeout) /\ h.timeout.num >= 1
       /\ h.timeout.num <= h.interval.num

\* Joi.object({ interval: Joi.number().integer().min(1).required(),
\*     timeout: Joi.number().integer().min(1).less(Joi.ref('interval')).required() })
\*     .allow(false)
ValidHeartbeat(h) ==
    \/ h.kind = "absent"
    \/ h = Bool(FALSE)
    \/ /\ h.kind = "object"
       /\ IsInteger(h.interval) /\ h.interval.num >= 1
       /\ IsInteger(h.timeout) /\ h.timeout.num >= 1
       /\ h.timeout.num < h.interval.num

\* Joi.assert(settings, internals.schema, ...) does not throw
schema(s) == ValidAuth(s.auth) /\ ValidHeartbeat(s.heartbeat)

---------------------------------------------------------------------------
(* internals.auth(server, settings), with rnd the string that              *)
(* Cryptiles.randomString(32) returns when it is called.                    *)

\* a faulty variant of configPassword: the random password is generated
\* whether or not one is configured
configPasswordAlwaysRandom(config, rnd) ==
    IF config.type # Str("direct") THEN Str(rnd) ELSE config.password

\* config.password after lines 159-163
configPassword(config, rnd) ==
    IF config.type # Str("direct") /\ Falsy(config.password)
    THEN Str(rnd)
    ELSE config.password

\* whether Cryptiles.randomString is called
generatesPassword(config) ==
    config.type # Str("direct") /\ Falsy(config.password)

\* server.state(config.cookie, cookieOptions), in cookie mode only
cookieDefinitions(config) ==
    IF config.type = Str("cookie")
    THEN {[name |-> config.cookie.str,
           encoding |-> "iron",
           password |-> config.password]}
    ELSE {}

\* server.route({ method, path, config: { id, isInternal, handler } })
authRoute(config) ==
    [method |-> IF config.type = Str("direct") THEN "auth" ELSE "GET",
     path |-> config.endpoint.str,
     id |-> config.id.str,
     isInternal |-> (config.type = Str("direct"))]

auth(s, rnd) ==
    IF Falsy(s.auth)
    THEN [settings |-> s, routes |-> {}, states |-> {}, randomStrings |-> <<>>]
    ELSE LET config == [s.auth EXCEPT !.password = configPassword(s.auth, rnd)]
         IN  [settings |-> [s EXCEPT !.auth = config],
              routes |-> {authRoute(config)},
              states |-> cookieDefinitions(config),
              randomStrings |-> IF generatesPassword(s.auth) THEN <<rnd>> ELSE <<>>]

---------------------------------------------------------------------------
(* Listener (lib/listener.js): the constructor and _close(next).  _close   *)
(* marks the listener stopped and starts closing its sockets; its callback *)
(* comes later, with or without an error, or never.                        *)

NewListener == [stopped |-> FALSE, close |-> "idle"]

listenerClose(l) == [l EXCEPT !.stopped = TRUE, !.close = "pending"]

---------------------------------------------------------------------------
(* exports.register(server, options, next)                                  *)

Hooks == {"onPreStart", "onPreStop"}
Decorations == {"server.broadcast", "server.subscription", "server.publish",
                "server.eachSocket", "request.socket"}

Unregistered ==
    [phase |-> "init", settings |-> Absent, routes |-> {}, states |-> {},
     listeners |-> <<>>, exts |-> {}, decorations |-> {},
     nextCalled |-> FALSE, randomStrings |-> <<>>]

\* a faulty variant of register: the settings are validated after the
\* authentication endpoint is set up instead of first
registerValidatesLate(opts, n, rnd) ==
    LET s == applyToDefaults(defaults, opts)
        a == auth(s, rnd)
    IN  IF ~schema(s)
        THEN [Unregistered EXCEPT !.phase = "threw", !.routes = a.routes,
                                  !.states = a.states,
                                  !.randomStrings = a.randomStrings]
        ELSE [phase |-> "registered",
              settings |-> a.settings,
              routes |-> a.routes,
              states |-> a.states,
              listeners |-> [i \in 1..n |-> NewListener],
              exts |-> Hooks,
              decorations |-> Decorations,
              nextCalled |-> TRUE,
              randomStrings |-> a.randomStrings]

\* what register leaves behind, for options opts on a server of n connections
register(opts, n, rnd) ==
    LET s == applyToDefaults(defaults, opts)
    IN  IF ~schema(s)
        THEN [Unregistered EXCEPT !.phase = "threw"]
        ELSE LET a == auth(s, rnd)
             IN  [phase |-> "registered",
                  settings |-> a.settings,
                  routes |-> a.routes,
                  states |-> a.states,
                  listeners |-> [i \in 1..n |-> NewListener],
                  exts |-> Hooks,
                  decorations |-> Decorations,
                  nextCalled |-> TRUE,
                  randomStrings |-> a.randomStrings]

RandomStrings == {"random-1", "random-2"}

Register ==
    /\ phase = "init"
    /\ \E rnd \in RandomStrings :
          LET r == register(options, connections, rnd)
          IN  /\ phase' = r.phase
              /\ settings' = r.settings
              /\ routes' = r.routes
              /\ states' = r.states
              /\ listeners' = r.listeners
              /\ exts' = r.exts
              /\ decorations' = r.decorations
              /\ nextCalled' = r.nextCalled
              /\ randomStrings' = r.randomStrings
    /\ hostCall' = "none"
    /\ UNCHANGED <<options, connections, serial, requests>>

---------------------------------------------------------------------------
(* The lifecycle hooks.  hostCall is the call the last step made into the  *)
(* host ("none" when it made none).                                        *)

\* a faulty variant of clearStopped: the loop stops one listener short
clearStoppedAllButLast(ls) ==
    [i \in 1..Len(ls) |->
        IF i < Len(ls) THEN [ls[i] EXCEPT !.stopped = FALSE] ELSE ls[i]]

\* for (let i = 0; i < listeners.length; ++i) listeners[i]._stopped = false
clearStopped(ls) ==
    [i \in 1..Len(ls) |-> [ls[i] EXCEPT !.stopped = FALSE]]

onPreStart ==
    /\ phase = "registered"
    /\ "onPreStart" \in exts
    /\ listeners' = clearStopped(listeners)
    /\ hostCall' = "onPreStart:extNext"
    /\ UNCHANGED <<options, connections, phase, settings, routes, states,
                   exts, decorations, nextCalled, randomStrings, serial,
                   requests>>

Idle == [running |-> FALSE, i |-> 0]

\* a faulty variant of onPreStop: every _close is started and extNext is
\* called at once, without waiting for the callbacks
onPreStopDoesNotWait ==
    /\ phase = "registered"
    /\ "onPreStop" \in exts
    /\ ~serial.running
    /\ listeners' = [i \in 1..Len(listeners) |-> listenerClose(listeners[i])]
    /\ serial' = Idle
    /\ hostCall' = "onPreStop:extNext"
    /\ UNCHANGED <<options, connections, phase, settings, routes, states,
                   exts, decorations, nextCalled, randomStrings, requests>>

\* Items.serial(listeners, method, extNext): with no listener the callback
\* is called at once, otherwise method is called on the first one
onPreStop ==
    /\ phase = "registered"
    /\ "onPreStop" \in exts
    /\ ~serial.running
    /\ IF Len(listeners) = 0
       THEN /\ hostCall' = "onPreStop:extNext"
            /\ UNCHANGED <<listeners, serial>>
       ELSE /\ listeners' =
                 [i \in 1..Len(listeners) |->
                     IF i = 1 THEN listenerClose(listeners[i])
                     ELSE [listeners[i] EXCEPT !.close = "idle"]]
            /\ serial' = [running |-> TRUE, i |-> 1]
            /\ hostCall' = "none"
    /\ UNCHANGED <<options, connections, phase, settings, routes, states,
                   exts, decorations, nextCalled, randomStrings, requests>>

\* the callback Items.serial hands to method, called by listener i's _close:
\* an error ends the iteration with callback(err); otherwise the next
\* listener's _close is called, or callback() after the last one
serialDone(ls, i, err) ==
    IF err
    THEN [listeners |-> [ls EXCEPT ![i].close = "failed"],
          serial |-> Idle,
          hostCall |-> "onPreStop:extNext(err)"]
    ELSE IF i < Len(ls)
    THEN [listeners |-> [ls EXCEPT ![i].close = "done",
                                   ![i + 1] = listenerClose(@)],
          serial |-> [running |-> TRUE, i |-> i + 1],
          hostCall |-> "none"]
    ELSE [listeners |-> [ls EXCEPT ![i].close = "done"],
          serial |-> Idle,
          hostCall |-> "onPreStop:extNext"]

closeCallback ==
    /\ serial.running
    /\ listeners[serial.i].close = "pending"
    /\ \E err \in BOOLEAN :
          LET d == serialDone(listeners, serial.i, err)
          IN  /\ listeners' = d.listeners
              /\ serial' = d.serial
              /\ hostCall' = d.hostCall
    /\ UNCHANGED <<options, connections, phase, settings, routes, states,
                   exts, decorations, nextCalled, randomStrings, requests>>

---------------------------------------------------------------------------
(* The handshake route handler.  A request is                               *)
(*   auth       request.auth: isAuthenticated, credentials, artifacts       *)
(*   replies    the calls of reply, in order                                *)
(*   cookies    the calls of .state(name, value) on a reply                 *)
(*   seals      the calls of Iron.seal: the object and the password         *)
(*   pending    whether Iron.seal's callback is still to come               *)
(*   sealFailed whether Iron.seal called back with an error                 *)
(*   failuresBefore  the sealing failures replied before the request came   *)

Credentials == {"john", "mary"}
Artifacts == {"none", "scope"}

RequestAuths ==
    [isAuthenticated : BOOLEAN, credentials : Credentials, artifacts : Artifacts]

\* what Iron.seal(object, password, ...) hands its callback on success: a
\* string made of the password and the object
IronSeal(object, password) ==
    <<"Fe26.2", password.str, object.credentials, object.artifacts>>

SealError == [isBoom |-> TRUE, message |-> "seal failed"]

\* a faulty variant of handler: request.auth.isAuthenticated is not looked at
handlerIgnoresIsAuthenticated(config, a) ==
    LET credentials == [credentials |-> a.credentials, artifacts |-> a.artifacts]
    IN  IF config.type = Str("direct")
        THEN [replies |-> <<credentials>>, cookies |-> <<>>, seals |-> <<>>]
        ELSE IF config.type = Str("cookie")
        THEN [replies |-> <<[status |-> "authenticated"]>>,
              cookies |-> <<[name |-> config.cookie.str, value |-> credentials]>>,
              seals |-> <<>>]
        ELSE [replies |-> <<>>, cookies |-> <<>>,
              seals |-> <<[object |-> credentials, password |-> config.password]>>]

\* a faulty variant of handler: direct mode replies like cookie mode
handlerDirectAsCookie(config, a) ==
    LET credentials == [credentials |-> a.credentials, artifacts |-> a.artifacts]
    IN  IF ~a.isAuthenticated
        THEN [replies |-> <<[status |-> "unauthenticated"]>>,
              cookies |-> <<>>, seals |-> <<>>]
        ELSE IF config.type \in {Str("direct"), Str("cookie")}
        THEN [replies |-> <<[status |-> "authenticated"]>>,
              cookies |-> <<[name |-> config.cookie.str, value |-> credentials]>>,
              seals |-> <<>>]
        ELSE [replies |-> <<>>, cookies |-> <<>>,
              seals |-> <<[object |-> credentials, password |-> config.password]>>]

\* handler(request, reply), up to its return
handler(config, a) ==
    LET credentials == [credentials |-> a.credentials, artifacts |-> a.artifacts]
    IN  IF ~a.isAuthenticated
        THEN [replies |-> <<[status |-> "unauthenticated"]>>,
              cookies |-> <<>>, seals |-> <<>>]
        ELSE IF config.type = Str("direct")
        THEN [replies |-> <<credentials>>, cookies |-> <<>>, seals |-> <<>>]
        ELSE IF config.type = Str("cookie")
        THEN [replies |-> <<[status |-> "authenticated"]>>,
              cookies |-> <<[name |-> config.cookie.str, value |-> credentials]>>,
              seals |-> <<>>]
        ELSE [replies |-> <<>>, cookies |-> <<>>,
              seals |-> <<[object |-> credentials, password |-> config.password]>>]

\* a faulty variant of sealCallback: the error branch does not return
sealCallbackFallsThrough(seal, err) ==
    IF err
    THEN <<SealError, [status |-> "authenticated"]>>
    ELSE <<[status |-> "authenticated",
            token |-> IronSeal(seal.object, seal.password)]>>

\* (err, sealed) => { ... }: the replies Iron.seal's callback makes
sealCallback(seal, err) ==
    IF err
    THEN <<SealError>>
    ELSE <<[status |-> "authenticated",
            token |-> IronSeal(seal.object, seal.password)]>>

SealFailures ==
    Cardinality({r \in 1..Len(requests) :
                    requests[r].sealFailed /\ ~requests[r].pending})

Handshake ==
    /\ phase = "registered"
    /\ routes # {}
    /\ Len(requests) < MaxRequests
    /\ \E a \in RequestAuths :
          LET h == handler(settings.auth, a)
          IN  requests' = Append(requests,
                  [auth |-> a,
                   replies |-> h.replies,
                   cookies |-> h.cookies,
                   seals |-> h.seals,
                   pending |-> (h.seals # <<>>),
                   sealFailed |-> FALSE,
                   failuresBefore |-> SealFailures])
    /\ hostCall' = "none"
    /\ UNCHANGED <<options, connections, phase, settings, routes, states,
                   listeners, exts, decorations, nextCalled, randomStrings,
                   serial>>

SealDone ==
    /\ \E r \in 1..Len(requests), err \in BOOLEAN :
          /\ requests[r].pending
          /\ requests' = [requests EXCEPT
                 ![r].replies = @ \o sealCallback(requests[r].seals[1], err),
                 ![r].pending = FALSE,
                 ![r].sealFailed = err]
    /\ hostCall' = "none"
    /\ UNCHANGED <<options, connections, phase, settings, routes, states,
                   listeners, exts, decorations, nextCalled, randomStrings,
                   serial>>

---------------------------------------------------------------------------
(* Inputs.                                                                  *)

\* the numbers an option is drawn from: the small ones and those around
\* the defaults
Numbers ==
    (0..MaxNum) \cup
    {DefaultHeartbeatTimeout - 1, DefaultHeartbeatTimeout,
     DefaultHeartbeatTimeout + 1, DefaultHeartbeatInterval - 1,
     DefaultHeartbeatInterval, DefaultHeartbeatInterval + 1}

NumberOptions == {Absent} \cup {Num(n) : n \in Numbers}

HeartbeatOptions ==
    {Absent, Bool(FALSE)} \cup
    [kind : {"object"}, interval : NumberOptions, timeout : NumberOptions]

AuthOptions ==
    {Absent, Bool(FALSE)} \cup
    [kind : {"object"},
     type : {Absent, Str("direct"), Str("cookie"), Str("token"), Str("basic")},
     password : {Absent, Str("secret"), Str("")},
     index : {Absent, Bool(TRUE), Bool(FALSE)},
     maxConnectionsPerUser : {Absent, Bool(FALSE)} \cup {Num(n) : n \in 0..MaxNum}]

\* the options of the handshake runs: every type, with and without password
HandshakeAuthOptions ==
    {Bool(FALSE)} \cup
    [kind : {"object"},
     type : {Absent, Str("direct"), Str("cookie"), Str("token")},
     password : {Absent, Str("secret")},
     index : {Absent},
     maxConnectionsPerUser : {Absent}]

InitState(opts, conns) ==
    /\ options \in opts
    /\ connections \in conns
    /\ phase = Unregistered.phase
    /\ settings = Unregistered.settings
    /\ routes = Unregistered.routes
    /\ states = Unregistered.states
    /\ listeners = Unregistered.listeners
    /\ exts = Unregistered.exts
    /\ decorations = Unregistered.decorations
    /\ nextCalled = Unregistered.nextCalled
    /\ randomStrings = Unregistered.randomStrings
    /\ serial = Idle
    /\ hostCall = "none"
    /\ requests = <<>>

---------------------------------------------------------------------------
(* Specifications: registration over the whole option space; the lifecycle *)
(* hooks after a registration; the handshake after a registration.         *)

InitConfig ==
    InitState([auth : AuthOptions, heartbeat : HeartbeatOptions], {1})

NextConfig == Register

SpecConfig == InitConfig /\ [][NextConfig]_vars

InitLifecycle ==
    InitState([auth : {Absent, Bool(FALSE)},
               heartbeat : {Absent, Bool(FALSE),
                            [kind |-> "object", interval |-> Num(1),
                             timeout |-> Absent]}],
              0..MaxListeners)

NextLifecycle ==
    \/ Register
    \/ onPreStart
    \/ onPreStop
    \/ closeCallback

SpecLifecycle == InitLifecycle /\ [][NextLifecycle]_vars

InitAuth ==
    InitState([auth : HandshakeAuthOptions, heartbeat : {Absent}], {1})

NextAuth ==
    \/ Register
    \/ Handshake
    \/ SealDone

SpecAuth == InitAuth /\ [][NextAuth]_vars

---------------------------------------------------------------------------
(* Properties.                                                              *)

\* C1 (drain before stop): whenever onPreStop signals completion to the
\* host (extNext without an error), the _close of every listener created at
\* registration has been started and has called back: none is pending and
\* none was left out.  (The call extNext(err) is the subject of C2.)
C1_DrainBeforeStop ==
    hostCall = "onPreStop:extNext" =>
        /\ Len(listeners) = connections
        /\ \A i \in 1..Len(listeners) :
              listeners[i].close = "done"

\* a stop of the largest number of listeners that ran to completion
C1_Witness ==
    /\ hostCall = "onPreStop:extNext"
    /\ Len(listeners) = MaxListeners
    /\ \A i \in 1..Len(listeners) : listeners[i].close = "done"

\* C2 (shutdown error isolation): when onPreStop passes an error to the
\* host, every listener other than the failed one has finished closing.
\* Fails: Items.serial calls extNext(err) on the first error, before the
\* _close of the listeners after the failed one was started.
C2_ShutdownErrorIsolation ==
    hostCall = "onPreStop:extNext(err)" =>
        \A i \in 1..Len(listeners) :
            listeners[i].close # "failed" => listeners[i].close = "done"

\* C3 (restart clears the stopped state): when onPreStart calls extNext, the
\* _stopped flag of every listener is false, whatever starts and stops came
\* before.
C3_RestartClearsStopped ==
    hostCall = "onPreStart:extNext" =>
        \A i \in 1..Len(listeners) : ~listeners[i].stopped

\* a start after a completed stop of two or more listeners
C3_Witness ==
    /\ hostCall = "onPreStart:extNext"
    /\ Len(listeners) >= 2
    /\ \A i \in 1..Len(listeners) :
          listeners[i].close = "done" /\ ~listeners[i].stopped

\* C4 (unauthenticated handshake): in every mode a request the host reports
\* as not authenticated gets the single reply {status: 'unauthenticated'},
\* no cookie is set and Iron.seal is not called.
C4_UnauthenticatedReply ==
    \A r \in 1..Len(requests) :
        ~requests[r].auth.isAuthenticated =>
            /\ requests[r].replies = <<[status |-> "unauthenticated"]>>
            /\ requests[r].cookies = <<>>
            /\ requests[r].seals = <<>>
            /\ ~requests[r].pending

\* unauthenticated requests handled in token mode and in cookie mode
C4_Witness ==
    /\ phase = "registered"
    /\ settings.auth # Bool(FALSE)
    /\ settings.auth.type \in {Str("token"), Str("cookie")}
    /\ Len(requests) = MaxRequests
    /\ \A r \in 1..Len(requests) :
          /\ ~requests[r].auth.isAuthenticated
          /\ requests[r].replies # <<>>

\* C5 (authenticated handshake): the reply of an authenticated request is
\* {credentials, artifacts} without status in direct mode; {status:
\* 'authenticated'} with the cookie set to {credentials, artifacts} and no
\* token in cookie mode; {status: 'authenticated', token: <sealed>} and no
\* cookie in token mode once sealing succeeded.
C5_AuthenticatedReply ==
    \A r \in 1..Len(requests) :
        LET q == requests[r]
            creds == [credentials |-> q.auth.credentials,
                      artifacts |-> q.auth.artifacts]
            type == settings.auth.type.str
        IN  q.auth.isAuthenticated =>
              /\ type = "direct" =>
                    /\ q.replies = <<creds>>
                    /\ "status" \notin DOMAIN q.replies[1]
                    /\ q.cookies = <<>>
                    /\ q.seals = <<>>
              /\ type = "cookie" =>
                    /\ q.replies = <<[status |-> "authenticated"]>>
                    /\ "token" \notin DOMAIN q.replies[1]
                    /\ q.cookies = <<[name |-> settings.auth.cookie.str,
                                      value |-> creds]>>
                    /\ q.seals = <<>>
              /\ type = "token" /\ ~q.pending /\ ~q.sealFailed =>
                    /\ q.replies =
                          <<[status |-> "authenticated",
                             token |-> <<"Fe26.2", settings.auth.password.str,
                                         q.auth.credentials, q.auth.artifacts>>]>>
                    /\ q.cookies = <<>>

\* an authenticated request answered with a token
C5_Witness ==
    /\ phase = "registered"
    /\ settings.auth # Bool(FALSE)
    /\ settings.auth.type = Str("token")
    /\ \E r \in 1..Len(requests) :
          /\ requests[r].auth.isAuthenticated
          /\ Len(requests[r].replies) = 1
          /\ "token" \in DOMAIN requests[r].replies[1]

\* C6 (sealing failure): a token-mode request whose sealing failed has
\* exactly one reply, the error, without a token; the route stays registered
\* and a request that comes after the failure and seals successfully gets
\* its token.
C6_SealFailureIsolated ==
    \A r \in 1..Len(requests) :
        LET q == requests[r]
        IN  /\ q.sealFailed =>
                  /\ q.replies = <<SealError>>
                  /\ "token" \notin DOMAIN q.replies[1]
                  /\ q.cookies = <<>>
                  /\ phase = "registered"
                  /\ routes # {}
            /\ (/\ q.failuresBefore > 0
                /\ q.auth.isAuthenticated
                /\ ~q.pending
                /\ ~q.sealFailed) =>
                  /\ Len(q.replies) = 1
                  /\ q.replies[1].status = "authenticated"
                  /\ "token" \in DOMAIN q.replies[1]

\* a failed sealing, answered, and a later request that got its token
C6_Witness ==
    /\ \E r \in 1..Len(requests) :
          requests[r].sealFailed /\ requests[r].replies = <<SealError>>
    /\ \E r \in 1..Len(requests) :
          /\ requests[r].failuresBefore > 0
          /\ ~requests[r].pending
          /\ ~requests[r].sealFailed
          /\ requests[r].seals # <<>>

\* the password the options configure (none when auth is left to defaults)
ConfiguredPassword ==
    IF options.auth.kind = "object" THEN options.auth.password ELSE Absent

MergedInterval ==
    IF options.heartbeat.kind = "object" /\ options.heartbeat.interval # Absent
    THEN options.heartbeat.interval.num
    ELSE DefaultHeartbeatInterval

MergedTimeout ==
    IF options.heartbeat.kind = "object" /\ options.heartbeat.timeout # Absent
    THEN options.heartbeat.timeout.num
    ELSE DefaultHeartbeatTimeout

\* C8 (heartbeat validation): once register has run, a heartbeat whose
\* merged timeout is at least its merged interval made it throw; with the
\* heartbeat disabled and the rest left to defaults it succeeded.
C8_HeartbeatRejected ==
    phase # "init" =>
        /\ (options.heartbeat # Bool(FALSE) /\ MergedTimeout >= MergedInterval)
              => phase = "threw"
        /\ (options.heartbeat = Bool(FALSE) /\ options.auth \in {Absent, Bool(FALSE)})
              => phase = "registered"

\* only the interval is set, to the default timeout: rejected
C8_Witness ==
    /\ phase = "threw"
    /\ options.auth = Absent
    /\ options.heartbeat = [kind |-> "object",
                            interval |-> Num(DefaultHeartbeatTimeout),
                            timeout |-> Absent]

\* C9 (per-user cap needs the index): with auth.index false or left out, a
\* maxConnectionsPerUser other than false made register throw; with
\* auth.index true, false and every integer of at least 1 are accepted (the
\* rest of the options being valid).
C9_MaxConnectionsPerUserNeedsIndex ==
    (phase # "init" /\ options.auth.kind = "object") =>
        LET a == options.auth
            index == a.index = Bool(TRUE)
            m == a.maxConnectionsPerUser
            restValid ==
                /\ a.type \in {Absent, Str("direct"), Str("cookie"), Str("token")}
                /\ a.password \in {Absent, Str("secret")}
                /\ options.heartbeat \in {Absent, Bool(FALSE)}
        IN  /\ (~index /\ m \notin {Absent, Bool(FALSE)}) => phase = "threw"
            /\ (/\ index
                /\ restValid
                /\ (m = Bool(FALSE) \/ (m.kind = "number" /\ m.num >= 1)))
                  => phase = "registered"

\* index left at its default, a cap of 1: rejected
C9_Witness ==
    /\ phase = "threw"
    /\ options.heartbeat = Absent
    /\ options.auth = [kind |-> "object", type |-> Absent, password |-> Absent,
                       index |-> Absent, maxConnectionsPerUser |-> Num(1)]

\* C10 (no partial effect): when register threw on the settings, no route
\* and no cookie definition was added, no listener created, no hook
\* installed, no decoration added, no random password drawn and next was
\* not called; next is called only by a registration that went through.
C10_InvalidConfigNoEffect ==
    /\ phase = "threw" =>
          /\ routes = {}
          /\ states = {}
          /\ listeners = <<>>
          /\ exts = {}
          /\ decorations = {}
          /\ randomStrings = <<>>
          /\ ~nextCalled
    /\ nextCalled => phase = "registered"

\* a rejected configuration whose authentication is in cookie mode
C10_Witness ==
    /\ phase = "threw"
    /\ options.auth.kind = "object"
    /\ options.auth.type = Str("cookie")
    /\ options.auth.password = Absent
    /\ connections > 0

====
